---------------------------- MODULE Spec2Model ----------------------------
(***************************************************************************)
(* A model of the apk crate's package builder (src/apk/src/lib.rs): the    *)
(* Apk object, its archive writer, the statements of Apk::add_res, the     *)
(* other entry-adding operations, finish and sign, and the chunk parser    *)
(* exercised by the crate's tests.                                         *)
(*                                                                         *)
(* Apk::add_res is modelled statement by statement (pc holds the position  *)
(* in the function body); while it runs nothing else can touch the Apk     *)
(* (it holds &mut self), so every other operation on the Apk is guarded by *)
(* pc = "idle"; Apk::sign takes no Apk and can run at any time.  Every     *)
(* statement that ends in `?` has a failing outcome.                       *)
(***************************************************************************)
EXTENDS Integers, Sequences, FiniteSets, TLC

VARIABLES
    apk,        \* "none" (not constructed), "open", "finishing" (inside finish, the
                \* archive finalized and not yet signed), "dropped" (finish returned)
    zip,        \* the archive: a sequence of entries [name, method, align, data]
    zipState,   \* "writing", "finished" (zip.finish() Ok), "failed" (zip.finish() Err)
    signs,      \* the signer's invocations: who called it, on what state of the archive
    calls,      \* number of operations called on the Apk so far
    pc,         \* position inside Apk::add_res, "idle" outside of it
    args,       \* the arguments of the running add_res call
    buf,        \* let mut buf = vec![]
    table,      \* let mut table = Table::default()
    manifest,   \* the (mutable) manifest argument
    mipmap,     \* the result of compile_mipmap, <<>> before
    vi,         \* number of variants the for loop has taken
    compiled,   \* the result of compile_manifest, <<>> before
    result,     \* "none", "Ok" or "Err": what add_res returned
    mark,       \* Len(zip) when the running add_res call started
    trace,      \* the statements the running add_res call executed, with their outcome
    stream,     \* the byte stream handed to Chunk::parse
    valid,      \* whether stream is a known-valid fixture (a serialized chunk tree)
    parsed      \* <<>> before Chunk::parse ran, else <<[ok, pos]>>

vars == <<apk, zip, zipState, signs, calls, pc, args, buf, table, manifest,
          mipmap, vi, compiled, result, mark, trace, stream, valid, parsed>>

apkVars == <<apk, zip, zipState, signs, calls>>
resVars == <<pc, args, buf, table, manifest, mipmap, vi, compiled, result, mark, trace>>
parseVars == <<stream, valid, parsed>>

---------------------------------------------------------------------------
(* Bounds *)

\* operations called on one Apk
MaxCalls == 2
\* density buckets the mipmap compiler may return
MaxVariants == 2
\* calls of the associated function Apk::sign
MaxSigns == 2

---------------------------------------------------------------------------
(* Option<T> *)

None == <<>>
Some(v) == <<v>>
IsSome(o) == o # <<>>
Unwrap(o) == o[1]

---------------------------------------------------------------------------
(* Paths and the file system the operations read *)

\* A Path is the sequence of the segments its string is made of, as the
\* operating system reads them: the root is the first segment "/", "." and
\* ".." are kept wherever they stand, and a separator with nothing after it
\* leaves an empty last segment ("classes.dex/" is <<"classes.dex", "">>)

\* Path::iter / Path::components: the empty segments are dropped, and so is
\* every "." but a leading one
RECURSIVE Components(_)
Components(p) ==
    IF p = <<>> THEN <<>>
    ELSE LET front == Components(SubSeq(p, 1, Len(p) - 1))
             c == p[Len(p)]
         IN  IF c = "" \/ (c = "." /\ Len(p) > 1) THEN front ELSE Append(front, c)

\* Path::join(name): no separator is added after a trailing one
Join(p, name) ==
    IF p # <<>> /\ p[Len(p)] = ""
    THEN Append(SubSeq(p, 1, Len(p) - 1), name)
    ELSE Append(p, name)

RECURSIVE JoinSlash(_)
JoinSlash(segs) ==
    IF segs = <<>> THEN ""
    ELSE IF Len(segs) = 1 THEN segs[1]
    ELSE segs[1] \o "/" \o JoinSlash(Tail(segs))

\* the working directory, by its components below the root (the root is <<>>)
Cwd == <<"build", "app">>

\* the regular files below the working directory, with their content
Files ==
    ( <<"classes.dex">> :> <<"dex">> ) @@
    ( <<"libmain.so">> :> <<"elf">> ) @@
    ( <<"assets", "sub", "b.txt">> :> <<"b">> ) @@
    ( <<"icon.png">> :> <<"img">> ) @@
    ( <<"android.jar">> :> <<"jar">> )

\* the directories below the working directory
TreeDirs == { <<"assets">>, <<"assets", "sub">> }

\* the symbolic links below the working directory, with the file they point to
Links == ( <<"assets", "link">> :> <<"assets", "sub", "b.txt">> )

\* every directory, regular file and symbolic link, by absolute path: the
\* root, the ancestors of the working directory, and what lies below it
Dirs == { SubSeq(Cwd, 1, k) : k \in 0 .. Len(Cwd) } \cup { Cwd \o d : d \in TreeDirs }
RegularFiles == { Cwd \o f : f \in DOMAIN Files }
SymLinks == { Cwd \o l : l \in DOMAIN Links }
Below(abs) == SubSeq(abs, Len(Cwd) + 1, Len(abs))

\* path resolution, one component at a time, from the node `at`: every
\* segment is looked up in a directory (else ENOTDIR), "." and the empty
\* segment stay (so a trailing separator asks for a directory), ".."
\* goes to the parent (the root is its own parent), "/" restarts at the
\* root, a name must exist (else ENOENT), a symbolic link is followed
RECURSIVE Walk(_, _)
Walk(at, p) ==
    IF p = <<>> \/ at = None THEN at
    ELSE LET here == Unwrap(at)
             c == Head(p)
             child == Append(here, c)
         IN  IF c = "/" THEN Walk(Some(<<>>), Tail(p))
             ELSE IF here \notin Dirs THEN None
             ELSE IF c \in {".", ""} THEN Walk(at, Tail(p))
             ELSE IF c = ".."
                  THEN Walk(Some(SubSeq(here, 1, Len(here) - 1)), Tail(p))
             ELSE IF child \in Dirs \cup RegularFiles THEN Walk(Some(child), Tail(p))
             ELSE IF child \in SymLinks
                  THEN Walk(Some(Cwd \o Links[Below(child)]), Tail(p))
             ELSE None

\* the node a path names, None when it names nothing (the empty path names
\* nothing)
Norm(p) == IF p = <<>> THEN None ELSE Walk(Some(Cwd), p)

IsDir(p) == IsSome(Norm(p)) /\ Unwrap(Norm(p)) \in Dirs
Readable(p) == IsSome(Norm(p)) /\ Unwrap(Norm(p)) \in RegularFiles
FileBytes(p) == Files[Below(Unwrap(Norm(p)))]

\* File::open(p) succeeds: on a regular file, and on a directory too (the
\* open succeeds, the first read fails with EISDIR)
FileExists(p) == Readable(p) \/ IsDir(p)

\* the entries of a directory (std::fs::read_dir), as file names
DirEntries(d) ==
    LET dir == Unwrap(Norm(d))
    IN  { n[Len(dir) + 1] :
            n \in { q \in Dirs \cup RegularFiles \cup SymLinks :
                      Len(q) = Len(dir) + 1 /\ SubSeq(q, 1, Len(dir)) = dir } }

\* DirEntry::file_type of entry e of directory d: a symbolic link is
\* reported as such, not as what it points to
EntryType(d, e) ==
    LET node == Append(Unwrap(Norm(d)), e)
    IN  IF node \in Dirs THEN "dir"
        ELSE IF node \in RegularFiles THEN "file"
        ELSE "symlink"

---------------------------------------------------------------------------
(* xcommon::ZipFileOptions *)

Compressed == [kind |-> "Compressed", align |-> 1]
Aligned(a) == [kind |-> "Aligned", align |-> a]
Unaligned == [kind |-> "Unaligned", align |-> 1]

CompressionMethod(opts) == IF opts.kind = "Compressed" THEN "Deflated" ELSE "Stored"
Alignment(opts) == IF opts.kind = "Aligned" THEN opts.align ELSE 1

---------------------------------------------------------------------------
(* The archive writer *)

\* Apk::start_file: the name's components joined by "/", the options'
\* compression method and alignment; the ZipWriter opens a new, empty entry
StartFile(z, name, opts) ==
    Append(z, [name |-> JoinSlash(Components(name)),
               method |-> CompressionMethod(opts),
               align |-> Alignment(opts),
               data |-> <<>>])

\* self.zip.write_all(bytes) / io::copy into self.zip: the bytes go to the
\* entry started last
ZipWrite(z, bytes) ==
    IF z = <<>> THEN z
    ELSE [z EXCEPT ![Len(z)].data = @ \o bytes]

\* the proper prefixes of bytes: what a failing write may have written
ProperPrefixes(bytes) == { SubSeq(bytes, 1, k) : k \in 0 .. (Len(bytes) - 1) }

\* (mutant) the buffer is not cleared
BufClearNoop(b) == b

\* Vec::clear
BufClear(b) == <<>>

\* Cursor::new(&mut buf) followed by writes of `bytes`: the cursor starts at
\* position 0, overwrites what the vector holds and extends it when needed
CursorWrite(b, bytes) ==
    IF Len(bytes) >= Len(b) THEN bytes
    ELSE bytes \o SubSeq(b, Len(bytes) + 1, Len(b))

---------------------------------------------------------------------------
(* The collaborators of add_res that live in crate::compiler, crate::res   *)
(* and xcommon: the resource table, the mipmap compiler, the manifest      *)
(* compiler, the chunk writer and the bitmap rescaler.                     *)

\* the package of the platform's base table (android.jar)
BaseChunk == [package |-> "android", type |-> "attr", name |-> "icon", buckets |-> 0]

\* Table::default()
EmptyTable == [state |-> "Empty", packages |-> <<>>]

\* Table::import_apk: reads the base table out of the platform jar
ImportApkOk(android) == Readable(android) /\ FileBytes(android) = <<"jar">>
ImportApk(t, android) ==
    [state |-> "Imported", packages |-> Append(t.packages, BaseChunk)]

\* Table::import_chunk (merge): valid once a base table is imported
MergeOk(t) == t.state \in {"Imported", "Merging"}
ImportChunk(t, chunk) ==
    IF MergeOk(t)
    THEN [state |-> "Merging", packages |-> Append(t.packages, chunk)]
    ELSE t

\* the density buckets, in increasing density order; bucket i has target size i
BucketName(i) ==
    CASE i = 1 -> "mipmap-mdpi"
      [] i = 2 -> "mipmap-hdpi"
      [] i = 3 -> "mipmap-xhdpi"
      [] i = 4 -> "mipmap-xxhdpi"
      [] OTHER -> "mipmap-xxxhdpi"

\* compile_mipmap(package, name) for n density buckets: the chunk and the
\* (path, size) list, one path per bucket
CompileMipmap(package, name, n) ==
    [chunk |-> [package |-> package, type |-> "mipmap", name |-> name, buckets |-> n],
     variants |-> [i \in 1 .. n |->
                     [path |-> <<"res", BucketName(i), name \o ".png">>, size |-> i]]]

\* Chunk::write: the serialization of a type-level chunk, one entry per bucket
ChunkBytes(chunk) ==
    <<[package |-> chunk.package, type |-> chunk.type, name |-> chunk.name]>>
        \o [i \in 1 .. chunk.buckets |-> i]

\* the serialization of a whole table: every package it holds
RECURSIVE TableBytes(_)
TableBytes(pkgs) ==
    IF pkgs = <<>> THEN <<>> ELSE ChunkBytes(Head(pkgs)) \o TableBytes(Tail(pkgs))

\* Scaler::open: reads and decodes the image file
ScalerOpenOk(path) == Readable(path) /\ FileBytes(path) = <<"img">>

\* Scaler::write(size): the encoded image for that size
ScalerBytes(img, size) == [i \in 1 .. size |-> <<img, size>>]

\* "@mipmap/icon" names entry "icon" of type "mipmap"
RefType(ref) == IF ref \in {"@mipmap/icon", "@mipmap/other"} THEN "mipmap" ELSE "drawable"
RefName(ref) == IF ref = "@mipmap/icon" THEN "icon" ELSE "other"

\* Table::resolve: the indices of the packages holding the entry
Resolve(t, ref) ==
    { i \in 1 .. Len(t.packages) :
        /\ t.packages[i].type = RefType(ref)
        /\ t.packages[i].name = RefName(ref)
        /\ t.packages[i].package # "android" }

\* compile_manifest: fails with UnresolvedReference when the icon attribute
\* names a resource the table does not hold
Unresolved(m, t) == IsSome(m.icon) /\ Resolve(t, Unwrap(m.icon)) = {}
CompileManifest(m, t) ==
    [package |-> m.package,
     icon |-> m.icon,
     id |-> IF IsSome(m.icon) /\ ~Unresolved(m, t)
            THEN Some(CHOOSE i \in Resolve(t, Unwrap(m.icon)) :
                        \A j \in Resolve(t, Unwrap(m.icon)) : i <= j)
            ELSE None]

\* Chunk::write of the compiled manifest
ManifestBytes(c) == <<[package |-> c.package]>> \o c.id

---------------------------------------------------------------------------
(* Inputs *)

Manifests ==
    { [package |-> "com.example", icon |-> i] :
        i \in { None, Some("@mipmap/icon"), Some("@mipmap/other") } }
Icons == { None, Some(<<"icon.png">>), Some(<<"missing.png">>) }
Androids == { <<"android.jar">>, <<"missing.jar">> }
Signers == { None, Some("key") }

---------------------------------------------------------------------------
(* Apk::add_res, one action per statement *)

Step(name, ok) == [step |-> name, ok |-> ok]

\* `?` on an Err: the error is returned to the caller at once
Raise(name) ==
    /\ pc' = "done"
    /\ result' = "Err"
    /\ trace' = Append(trace, Step(name, FALSE))

\* the statement succeeded: go on with the statement at `next`
Goto(name, next) ==
    /\ pc' = next
    /\ result' = result
    /\ trace' = Append(trace, Step(name, TRUE))

\* lines 34-41: the call, `let mut buf = vec![]`, `Table::default()`
AddResCall ==
    /\ apk = "open" /\ pc = "idle" /\ calls < MaxCalls
    /\ \E m \in Manifests, icon \in Icons, android \in Androids :
         /\ args' = Some([manifest |-> m, icon |-> icon, android |-> android])
         /\ manifest' = Some(m)
    /\ calls' = calls + 1
    /\ pc' = "import"
    /\ buf' = <<>>
    /\ table' = EmptyTable
    /\ mipmap' = None /\ vi' = 0 /\ compiled' = None
    /\ result' = "none"
    /\ mark' = Len(zip)
    /\ trace' = <<>>
    /\ UNCHANGED <<apk, zip, zipState, signs, parseVars>>

\* (mutant) line 42 without its `?`: a failed import is ignored
AddResImportIgnored ==
    /\ pc = "import"
    /\ table' = IF ImportApkOk(Unwrap(args).android)
                THEN ImportApk(table, Unwrap(args).android)
                ELSE table
    /\ pc' = IF IsSome(Unwrap(args).icon) THEN "open" ELSE "compile"
    /\ result' = result
    /\ trace' = Append(trace, Step("import", ImportApkOk(Unwrap(args).android)))
    /\ UNCHANGED <<apkVars, args, buf, manifest, mipmap, vi, compiled, mark, parseVars>>

\* line 42: table.import_apk(android)?
AddResImport ==
    /\ pc = "import"
    /\ IF ImportApkOk(Unwrap(args).android)
       THEN /\ table' = ImportApk(table, Unwrap(args).android)
            /\ Goto("import", IF IsSome(Unwrap(args).icon) THEN "open" ELSE "compile")
       ELSE /\ table' = table
            /\ Raise("import")
    /\ UNCHANGED <<apkVars, args, buf, manifest, mipmap, vi, compiled, mark, parseVars>>

\* lines 44-45: Scaler::open(path)?; scaler.optimize()
AddResOpen ==
    /\ pc = "open"
    /\ IF ScalerOpenOk(Unwrap(Unwrap(args).icon))
       THEN Goto("open", "mipmap")
       ELSE Raise("open")
    /\ UNCHANGED <<apkVars, args, buf, table, manifest, mipmap, vi, compiled, mark, parseVars>>

\* line 46: compile_mipmap(&manifest.package, "icon")? -- the variant list
\* it returns is empty or holds MaxVariants density buckets
AddResCompileMipmap ==
    /\ pc = "mipmap"
    /\ \/ \E n \in {0, MaxVariants} :
            /\ mipmap' = Some(CompileMipmap(Unwrap(manifest).package, "icon", n))
            /\ Goto("mipmap", "start_arsc")
       \/ /\ mipmap' = mipmap
          /\ Raise("mipmap")
    /\ UNCHANGED <<apkVars, args, buf, table, manifest, vi, compiled, mark, parseVars>>

\* line 48: self.start_file("resources.arsc", Aligned(4))?
AddResStartArsc ==
    /\ pc = "start_arsc"
    /\ \/ /\ zip' = StartFile(zip, <<"resources.arsc">>, Aligned(4))
          /\ Goto("start_arsc", "chunk_write")
       \/ /\ zip' = zip
          /\ Raise("start_arsc")
    /\ UNCHANGED <<apk, zipState, signs, calls, args, buf, table, manifest, mipmap, vi,
                   compiled, mark, parseVars>>

\* lines 49-50: mipmap.chunk().write(&mut cursor)?
AddResChunkWrite ==
    /\ pc = "chunk_write"
    /\ \/ /\ buf' = CursorWrite(buf, ChunkBytes(Unwrap(mipmap).chunk))
          /\ Goto("chunk_write", "arsc_write_all")
       \/ /\ \E part \in ProperPrefixes(ChunkBytes(Unwrap(mipmap).chunk)) :
               buf' = CursorWrite(buf, part)
          /\ Raise("chunk_write")
    /\ UNCHANGED <<apkVars, args, table, manifest, mipmap, vi, compiled, mark, parseVars>>

\* line 51: self.zip.write_all(&buf)?
AddResArscWriteAll ==
    /\ pc = "arsc_write_all"
    /\ \/ /\ zip' = ZipWrite(zip, buf)
          /\ Goto("arsc_write_all", "loop")
       \/ /\ \E part \in ProperPrefixes(buf) : zip' = ZipWrite(zip, part)
          /\ Raise("arsc_write_all")
    /\ UNCHANGED <<apk, zipState, signs, calls, args, buf, table, manifest, mipmap, vi,
                   compiled, mark, parseVars>>

\* lines 53-54: the for loop takes the next variant and clears the buffer,
\* or ends
AddResLoop ==
    /\ pc = "loop"
    /\ IF vi < Len(Unwrap(mipmap).variants)
       THEN /\ vi' = vi + 1
            /\ buf' = BufClear(buf)
            /\ pc' = "scale"
       ELSE /\ vi' = vi
            /\ buf' = buf
            /\ pc' = "merge"
    /\ UNCHANGED <<apkVars, args, table, manifest, mipmap, compiled, result, mark, trace,
                   parseVars>>

\* lines 55-56: scaler.write(&mut cursor, size)?
AddResScale ==
    /\ pc = "scale"
    /\ LET bytes == ScalerBytes(Unwrap(Unwrap(args).icon), Unwrap(mipmap).variants[vi].size)
       IN  \/ /\ buf' = CursorWrite(buf, bytes)
              /\ Goto("scale", "start_variant")
           \/ /\ \E part \in ProperPrefixes(bytes) : buf' = CursorWrite(buf, part)
              /\ Raise("scale")
    /\ UNCHANGED <<apkVars, args, table, manifest, mipmap, vi, compiled, mark, parseVars>>

\* (mutant) line 57 naming every entry after the first variant
AddResStartVariantFirst ==
    /\ pc = "start_variant"
    /\ \/ /\ zip' = StartFile(zip, Unwrap(mipmap).variants[1].path, Aligned(4))
          /\ Goto("start_variant", "variant_write_all")
       \/ /\ zip' = zip
          /\ Raise("start_variant")
    /\ UNCHANGED <<apk, zipState, signs, calls, args, buf, table, manifest, mipmap, vi,
                   compiled, mark, parseVars>>

\* line 57: self.start_file(name.as_ref(), Aligned(4))?
AddResStartVariant ==
    /\ pc = "start_variant"
    /\ \/ /\ zip' = StartFile(zip, Unwrap(mipmap).variants[vi].path, Aligned(4))
          /\ Goto("start_variant", "variant_write_all")
       \/ /\ zip' = zip
          /\ Raise("start_variant")
    /\ UNCHANGED <<apk, zipState, signs, calls, args, buf, table, manifest, mipmap, vi,
                   compiled, mark, parseVars>>

\* line 58: self.zip.write_all(&buf)?
AddResVariantWriteAll ==
    /\ pc = "variant_write_all"
    /\ \/ /\ zip' = ZipWrite(zip, buf)
          /\ Goto("variant_write_all", "loop")
       \/ /\ \E part \in ProperPrefixes(buf) : zip' = ZipWrite(zip, part)
          /\ Raise("variant_write_all")
    /\ UNCHANGED <<apk, zipState, signs, calls, args, buf, table, manifest, mipmap, vi,
                   compiled, mark, parseVars>>

\* (mutant) lines 61-62 without the merge: only the icon attribute is set
AddResMergeSkipped ==
    /\ pc = "merge"
    /\ table' = table
    /\ manifest' = Some([Unwrap(manifest) EXCEPT !.icon = Some("@mipmap/icon")])
    /\ pc' = "compile"
    /\ trace' = trace
    /\ UNCHANGED <<apkVars, args, buf, mipmap, vi, compiled, result, mark, parseVars>>

\* lines 61-62: table.import_chunk(mipmap.chunk()) -- whatever it returns is
\* dropped, there is no `?` -- and manifest.application.icon = Some("@mipmap/icon")
AddResMerge ==
    /\ pc = "merge"
    /\ table' = ImportChunk(table, Unwrap(mipmap).chunk)
    /\ manifest' = Some([Unwrap(manifest) EXCEPT !.icon = Some("@mipmap/icon")])
    /\ pc' = "compile"
    /\ trace' = Append(trace, Step("merge", MergeOk(table)))
    /\ UNCHANGED <<apkVars, args, buf, mipmap, vi, compiled, result, mark, parseVars>>

\* (mutant) line 64 without its `?`: a failed compilation is ignored
AddResCompileManifestIgnored ==
    /\ pc = "compile"
    /\ compiled' = Some(CompileManifest(Unwrap(manifest), table))
    /\ pc' = "start_manifest"
    /\ result' = result
    /\ \E ok \in BOOLEAN :
         /\ ok => ~Unresolved(Unwrap(manifest), table)
         /\ trace' = Append(trace, Step("compile", ok))
    /\ UNCHANGED <<apkVars, args, buf, table, manifest, mipmap, vi, mark, parseVars>>

\* line 64: compile_manifest(manifest, &table)?
AddResCompileManifest ==
    /\ pc = "compile"
    /\ \/ /\ ~Unresolved(Unwrap(manifest), table)
          /\ compiled' = Some(CompileManifest(Unwrap(manifest), table))
          /\ Goto("compile", "start_manifest")
       \/ /\ compiled' = compiled
          /\ Raise("compile")
    /\ UNCHANGED <<apkVars, args, buf, table, manifest, mipmap, vi, mark, parseVars>>

\* line 65: self.start_file("AndroidManifest.xml", Compressed)?
AddResStartManifest ==
    /\ pc = "start_manifest"
    /\ \/ /\ zip' = StartFile(zip, <<"AndroidManifest.xml">>, Compressed)
          /\ Goto("start_manifest", "clear_manifest")
       \/ /\ zip' = zip
          /\ Raise("start_manifest")
    /\ UNCHANGED <<apk, zipState, signs, calls, args, buf, table, manifest, mipmap, vi,
                   compiled, mark, parseVars>>

\* line 66: buf.clear()
AddResClearManifest ==
    /\ pc = "clear_manifest"
    /\ buf' = BufClear(buf)
    /\ pc' = "manifest_write"
    /\ UNCHANGED <<apkVars, args, table, manifest, mipmap, vi, compiled, result, mark,
                   trace, parseVars>>

\* lines 67-68: manifest.write(&mut cursor)?
AddResManifestWrite ==
    /\ pc = "manifest_write"
    /\ \/ /\ buf' = CursorWrite(buf, ManifestBytes(Unwrap(compiled)))
          /\ Goto("manifest_write", "manifest_write_all")
       \/ /\ \E part \in ProperPrefixes(ManifestBytes(Unwrap(compiled))) :
               buf' = CursorWrite(buf, part)
          /\ Raise("manifest_write")
    /\ UNCHANGED <<apkVars, args, table, manifest, mipmap, vi, compiled, mark, parseVars>>

\* lines 69-70: self.zip.write_all(&buf)?; Ok(())
AddResManifestWriteAll ==
    /\ pc = "manifest_write_all"
    /\ \/ /\ zip' = ZipWrite(zip, buf)
          /\ pc' = "done"
          /\ result' = "Ok"
          /\ trace' = Append(trace, Step("manifest_write_all", TRUE))
       \/ /\ \E part \in ProperPrefixes(buf) : zip' = ZipWrite(zip, part)
          /\ Raise("manifest_write_all")
    /\ UNCHANGED <<apk, zipState, signs, calls, args, buf, table, manifest, mipmap, vi,
                   compiled, mark, parseVars>>

\* line 71: the call returns; its locals are dropped
AddResReturn ==
    /\ pc = "done"
    /\ pc' = "idle"
    /\ args' = None /\ manifest' = None /\ mipmap' = None /\ compiled' = None
    /\ buf' = <<>> /\ table' = EmptyTable /\ vi' = 0
    /\ result' = "none" /\ mark' = 0 /\ trace' = <<>>
    /\ UNCHANGED <<apkVars, parseVars>>

AddRes ==
    \/ AddResCall \/ AddResImport \/ AddResOpen \/ AddResCompileMipmap
    \/ AddResStartArsc \/ AddResChunkWrite \/ AddResArscWriteAll
    \/ AddResLoop \/ AddResScale \/ AddResStartVariant \/ AddResVariantWriteAll
    \/ AddResMerge \/ AddResCompileManifest \/ AddResStartManifest
    \/ AddResClearManifest \/ AddResManifestWrite \/ AddResManifestWriteAll
    \/ AddResReturn

---------------------------------------------------------------------------
(* The other operations of Apk *)

Outcome(z, ok) == [zip |-> z, ok |-> ok]

\* Apk::add_file: File::open(path)?; self.start_file(dest, opts)?;
\* std::io::copy(&mut f, &mut self.zip)?  -- every way it can end; a
\* directory opens, its entry is started, and the copy fails on the first read
AddFileOutcomes(z, path, dest, opts) ==
    IF ~FileExists(path) THEN { Outcome(z, FALSE) }
    ELSE IF ~Readable(path)
         THEN { Outcome(z, FALSE), Outcome(StartFile(z, dest, opts), FALSE) }
    ELSE { Outcome(z, FALSE) }
         \cup { Outcome(ZipWrite(StartFile(z, dest, opts), part), FALSE) :
                  part \in ProperPrefixes(FileBytes(path)) }
         \cup { Outcome(ZipWrite(StartFile(z, dest, opts), FileBytes(path)), TRUE) }

\* add_recursive: the entries of read_dir(source) in the order the file
\* system yields them; a directory recurses, a regular file goes through
\* add_file compressed, anything else is passed over; the first error
\* (of read_dir, of an entry, of its file_type, of the recursion or of
\* add_file) ends the walk
RECURSIVE AddRecursive(_, _, _), AddEntries(_, _, _, _)
AddRecursive(z, source, dest) ==
    IF ~IsDir(source) THEN { Outcome(z, FALSE) }
    ELSE AddEntries(z, source, dest, DirEntries(source))
AddEntries(z, source, dest, rest) ==
    IF rest = {} THEN { Outcome(z, TRUE) }
    ELSE UNION { LET src == Join(source, e)
                     dst == Join(dest, e)
                     outs == { Outcome(z, FALSE) } \cup
                             CASE EntryType(source, e) = "dir" -> AddRecursive(z, src, dst)
                               [] EntryType(source, e) = "file" ->
                                    AddFileOutcomes(z, src, dst, Compressed)
                               [] OTHER -> { Outcome(z, TRUE) }
                 IN  UNION { IF o.ok THEN AddEntries(o.zip, source, dest, rest \ {e})
                                     ELSE { o } : o \in outs }
               : e \in rest }

\* Target::android_abi
AndroidAbi(target) ==
    CASE target = "Arm64V8a" -> "arm64-v8a"
      [] target = "ArmV7a" -> "armeabi-v7a"
      [] target = "X86" -> "x86"
      [] OTHER -> "x86_64"

\* Path::file_name: the last component, None unless it is a normal one
\* (not "..", ".", or the root "/")
FileName(path) ==
    LET cs == Components(path)
    IN  IF cs = <<>> \/ cs[Len(cs)] \in {"..", ".", "/"}
        THEN None
        ELSE Some(cs[Len(cs)])

\* the entry of another archive handed to raw_copy_file
ForeignEntry ==
    [name |-> "META-INF/services", method |-> "Deflated", align |-> 1, data |-> <<"raw">>]

\* Apk::new: File::create(&path)?, ZipWriter::new
New ==
    /\ apk = "none"
    /\ \/ /\ apk' = "open"
          /\ zip' = <<>>
          /\ zipState' = "writing"
          /\ UNCHANGED <<signs, calls>>
       \/ UNCHANGED apkVars
    /\ UNCHANGED <<resVars, parseVars>>

\* an operation that returns leaving the archive as `z`
Called(z) ==
    /\ zip' = z
    /\ calls' = calls + 1
    /\ UNCHANGED <<apk, zipState, signs, resVars, parseVars>>

Callable == apk = "open" /\ pc = "idle" /\ calls < MaxCalls

\* Apk::add_dex
AddDex ==
    /\ Callable
    /\ \E dex \in { <<"classes.dex">>, <<"missing.dex">> } :
         \E o \in AddFileOutcomes(zip, dex, <<"classes.dex">>, Compressed) : Called(o.zip)

\* Apk::raw_copy_file
RawCopyFile ==
    /\ Callable
    /\ \/ Called(Append(zip, ForeignEntry))
       \/ Called(zip)

\* Apk::add_lib
AddLib ==
    /\ Callable
    /\ \E target \in { "Arm64V8a", "X86_64" }, path \in { <<"libmain.so">>, <<"libmain.so", "">>, <<"..">>, <<".">>, <<"/">> } :
         IF ~IsSome(FileName(path)) THEN Called(zip)
         ELSE \E o \in AddFileOutcomes(zip, path,
                         <<"lib", AndroidAbi(target), Unwrap(FileName(path))>>,
                         Compressed) : Called(o.zip)

\* Apk::add_file
AddFile ==
    /\ Callable
    /\ \E path \in { <<"assets", "sub", "b.txt">>, <<"missing.txt">>, <<"assets">>,
                      <<"assets", "sub", "..", "link">> },
          dest \in { <<"resources.arsc">> },
          opts \in { Compressed, Unaligned } :
         \E o \in AddFileOutcomes(zip, path, dest, opts) : Called(o.zip)

\* Apk::add_directory
AddDirectory ==
    /\ Callable
    /\ \E source \in { <<"assets">>, <<"assets", "">>, <<"missing">> } :
         \E o \in AddRecursive(zip, source, <<"assets">>) : Called(o.zip)

\* one invocation of the signer (crate::sign::sign)
Signed(by, archive) == Append(signs, [by |-> by, zipState |-> archive])

\* Apk::finish(mut self, signer), line 118: self.zip.finish()? -- self is
\* consumed by the call, so an error drops it
FinishZip ==
    /\ apk = "open" /\ pc = "idle"
    /\ \/ /\ zipState' = "finished"
          /\ apk' = "finishing"
       \/ /\ zipState' = "failed"
          /\ apk' = "dropped"
    /\ UNCHANGED <<zip, signs, calls, resVars, parseVars>>

\* Apk::finish, lines 119-120: crate::sign::sign(&self.path, signer)?; Ok(())
FinishSign ==
    /\ apk = "finishing"
    /\ apk' = "dropped"
    /\ \E signer \in Signers : signs' = Signed("finish", zipState)
    /\ UNCHANGED <<zip, zipState, calls, resVars, parseVars>>

Finish == FinishZip \/ FinishSign

\* Apk::sign(path, signer): an associated function with the single statement
\* crate::sign::sign(&path, signer); it takes no Apk, so it can be called
\* before Apk::new, after finish, and while add_res runs
Sign ==
    /\ Cardinality({ i \in 1 .. Len(signs) : signs[i].by = "sign" }) < MaxSigns
    /\ \E signer \in Signers : signs' = Signed("sign", zipState)
    /\ UNCHANGED <<apk, zip, zipState, calls, resVars, parseVars>>

---------------------------------------------------------------------------
(* The chunk codec (crate::res::Chunk), on streams of units: a chunk is a   *)
(* header <<tag, header length, total length>>, its header fields, and its *)
(* body: the children, or for a string pool the strings padded to the      *)
(* pool's alignment.                                                       *)

\* strings of a pool, children of a chunk
MaxStrings == 2
MaxChildren == 2

TagCode(tag) ==
    CASE tag = "pool" -> 1
      [] tag = "table" -> 2
      [] tag = "xml" -> 3
      [] tag = "element" -> 258
      [] tag = "package" -> 512
      [] OTHER -> 513
KnownCodes == { 1, 2, 3, 258, 512, 513 }
PoolCode == 1
HeaderUnits == 3
PoolAlign == 4

Pad(n) == (PoolAlign - (n % PoolAlign)) % PoolAlign

MinHeader(code) == IF code = PoolCode THEN HeaderUnits + 1 ELSE HeaderUnits

\* chunk trees
PoolChunk(k) ==
    [tag |-> "pool", fields |-> <<k>>, strings |-> [i \in 1 .. k |-> 6 + i],
     children |-> <<>>]
TypeChunk(j) ==
    [tag |-> "type", fields |-> <<j, 0>>, strings |-> <<>>, children |-> <<>>]
PackageChunk(id, k, nt) ==
    [tag |-> "package", fields |-> <<id>>, strings |-> <<>>,
     children |-> <<PoolChunk(k)>> \o [j \in 1 .. nt |-> TypeChunk(j)]]
ElementChunk(i, na) ==
    [tag |-> "element", fields |-> <<i>> \o [a \in 1 .. na |-> a], strings |-> <<>>,
     children |-> <<>>]

\* a resource table (assets/resources.arsc) and a binary XML manifest
\* (assets/AndroidManifest.bxml)
TableFixture(k, np, k2, nt) ==
    [tag |-> "table", fields |-> <<np>>, strings |-> <<>>,
     children |-> <<PoolChunk(k)>> \o [i \in 1 .. np |-> PackageChunk(i, k2, nt)]]
XmlFixture(k, ne, na) ==
    [tag |-> "xml", fields |-> <<>>, strings |-> <<>>,
     children |-> <<PoolChunk(k)>> \o [i \in 1 .. ne |-> ElementChunk(i, na)]]

Fixtures ==
    { TableFixture(k, np, k2, nt) :
        k \in 0 .. MaxStrings, np \in 0 .. MaxChildren,
        k2 \in 0 .. MaxStrings, nt \in 0 .. MaxChildren }
    \cup { XmlFixture(k, ne, na) :
             k \in 0 .. MaxStrings, ne \in 0 .. MaxChildren, na \in 0 .. MaxChildren }

\* Chunk::write: header, header fields, then the body; the lengths are
\* computed from the content; a pool's strings are padded to its alignment
RECURSIVE WriteChunk(_), WriteAll(_)
WriteChunk(c) ==
    LET hlen == HeaderUnits + Len(c.fields)
        body == IF c.tag = "pool"
                THEN c.strings \o [i \in 1 .. Pad(hlen + Len(c.strings)) |-> 0]
                ELSE WriteAll(c.children)
    IN  <<TagCode(c.tag), hlen, hlen + Len(body)>> \o c.fields \o body
WriteAll(cs) ==
    IF cs = <<>> THEN <<>> ELSE WriteChunk(Head(cs)) \o WriteAll(Tail(cs))

ParseErr(kind, pos) == [ok |-> FALSE, pos |-> pos, error |-> kind]
ParseOk(pos) == [ok |-> TRUE, pos |-> pos, error |-> "none"]

\* Chunk::parse on the units s[pos+1 .. limit]: the header, its validation,
\* the body by tag, then the children until the declared length is consumed
RECURSIVE ParseAt(_, _, _), ParseChildren(_, _, _)
ParseAt(s, pos, limit) ==
    IF limit - pos < HeaderUnits THEN ParseErr("Truncated", pos)
    ELSE LET code == s[pos + 1]
             hlen == s[pos + 2]
             tlen == s[pos + 3]
         IN  IF code \notin KnownCodes THEN ParseErr("UnknownChunkType", pos)
             ELSE IF hlen < MinHeader(code) \/ hlen > tlen
                  THEN ParseErr("InvalidHeader", pos)
             ELSE IF tlen > limit - pos THEN ParseErr("Truncated", pos)
             ELSE IF code = PoolCode
                  THEN IF hlen + s[pos + HeaderUnits + 1] > tlen
                       THEN ParseErr("Truncated", pos)
                       ELSE ParseOk(pos + tlen)
             ELSE ParseChildren(s, pos + hlen, pos + tlen)
\* (mutant) only the first child is parsed
ParseChildrenFirst(s, pos, end) ==
    IF pos = end THEN ParseOk(end) ELSE ParseAt(s, pos, end)

ParseChildren(s, pos, end) ==
    IF pos = end THEN ParseOk(end)
    ELSE LET r == ParseAt(s, pos, end)
         IN  IF r.ok THEN ParseChildren(s, r.pos, end) ELSE r

\* the streams the parser is run on: the serialized fixtures, and each of
\* them cut by one unit or followed by one more unit
Streams ==
    { [bytes |-> WriteChunk(f), valid |-> TRUE] : f \in Fixtures }
    \cup { [bytes |-> SubSeq(WriteChunk(f), 1, Len(WriteChunk(f)) - 1), valid |-> FALSE] :
             f \in Fixtures }
    \cup { [bytes |-> Append(WriteChunk(f), 0), valid |-> FALSE] : f \in Fixtures }

\* tests::test_bxml_parse_manifest, tests::test_bxml_parse_arsc:
\* Chunk::parse(&mut r)?, then r.seek(SeekFrom::Current(0))
ChunkParse ==
    /\ parsed = None
    /\ stream # <<>>
    /\ parsed' = Some(ParseAt(stream, 0, Len(stream)))
    /\ UNCHANGED <<apkVars, resVars, stream, valid>>

---------------------------------------------------------------------------
(* Specifications *)

IdleRes ==
    /\ pc = "idle"
    /\ args = None /\ manifest = None /\ mipmap = None /\ compiled = None
    /\ buf = <<>> /\ table = EmptyTable /\ vi = 0
    /\ result = "none" /\ mark = 0 /\ trace = <<>>

InitApk ==
    /\ apk = "none"
    /\ zip = <<>>
    /\ zipState = "none"
    /\ signs = <<>>
    /\ calls = 0
    /\ IdleRes

Init ==
    /\ InitApk
    /\ stream = <<>> /\ valid = FALSE /\ parsed = None

Next ==
    \/ New
    \/ AddRes
    \/ AddDex \/ RawCopyFile \/ AddLib \/ AddFile \/ AddDirectory
    \/ Finish
    \/ Sign

Spec == Init /\ [][Next]_vars

\* the parser run on each stream
InitParse ==
    /\ InitApk
    /\ \E st \in Streams : stream = st.bytes /\ valid = st.valid
    /\ parsed = None

NextParse == ChunkParse

SpecParse == InitParse /\ [][NextParse]_vars

---------------------------------------------------------------------------
(* Properties *)

Returned == pc = "done"
ReturnedOk == pc = "done" /\ result = "Ok"
ReturnedErr == pc = "done" /\ result = "Err"
WithIcon == IsSome(args) /\ IsSome(Unwrap(args).icon)
WithoutIcon == IsSome(args) /\ ~IsSome(Unwrap(args).icon)

\* the entries the running add_res call started
Mine == SubSeq(zip, mark + 1, Len(zip))
StartedAs(name, method, align) ==
    \E i \in 1 .. Len(Mine) :
        Mine[i].name = name /\ Mine[i].method = method /\ Mine[i].align = align
Started(name) == \E i \in 1 .. Len(Mine) : Mine[i].name = name

\* the statement the call failed at, "none" when it has not failed
FailedAt ==
    IF trace # <<>> /\ ~trace[Len(trace)].ok THEN trace[Len(trace)].step ELSE "none"
Did(step) == \E i \in 1 .. Len(trace) : trace[i].step = step

Variants == Unwrap(mipmap).variants
Image == Unwrap(Unwrap(args).icon)

\* C1: every add_res that returns Ok leaves both resources.arsc (stored,
\* 4-byte aligned) and AndroidManifest.xml (compressed) in the archive, with
\* and without an icon.
C1_BothEntriesAlways ==
    ReturnedOk =>
        /\ StartedAs("resources.arsc", "Stored", 4)
        /\ StartedAs("AndroidManifest.xml", "Deflated", 1)

\* add_res returned Ok without an icon: AndroidManifest.xml is the one entry
\* it started
C1_Witness ==
    /\ ReturnedOk /\ WithoutIcon
    /\ Len(Mine) = 1 /\ Mine[1].name = "AndroidManifest.xml"

\* C2: the bytes of the resources.arsc entry are the serialization of the
\* table in its final state (base table imported, mipmap chunk merged), the
\* table the manifest is compiled against.
C2_ArscIsFinalTable ==
    (ReturnedOk /\ WithIcon) =>
        \E i \in 1 .. Len(Mine) :
            Mine[i].name = "resources.arsc" /\ Mine[i].data = TableBytes(table.packages)

\* add_res returned Ok with an icon: resources.arsc holds the mipmap chunk
\* alone, the table holds the base package and the merged chunk
C2_Witness ==
    /\ ReturnedOk /\ WithIcon /\ Len(Variants) = MaxVariants
    /\ Mine[1].name = "resources.arsc"
    /\ Mine[1].data = ChunkBytes(Unwrap(mipmap).chunk)
    /\ table.packages = <<BaseChunk, Unwrap(mipmap).chunk>>

\* C3: when serializing the table chunk, rescaling an icon variant, compiling
\* the manifest or serializing the manifest fails, the archive holds no entry
\* started for the failed artifact.
C3_NoPartialOutput ==
    ReturnedErr =>
        /\ FailedAt = "chunk_write" => ~Started("resources.arsc")
        /\ FailedAt = "scale" => ~Started(JoinSlash(Variants[vi].path))
        /\ FailedAt \in {"compile", "manifest_write"} => ~Started("AndroidManifest.xml")

FinishSigns == { i \in 1 .. Len(signs) : signs[i].by = "finish" }

\* C4: over any sequence of operations the signer is invoked once at most,
\* only on an archive that has been finalized successfully (so never while
\* entries can still be written, and never after a failed finalization), and
\* only when every entry of the archive is fully written.  No artifact has
\* an empty serialization and no file is empty, so an entry without data is
\* one that was started and not written.
C4_SignerOnceAfterFinalize ==
    /\ Len(signs) <= 1
    /\ \A i \in 1 .. Len(signs) : signs[i].zipState = "finished"
    /\ (\E i \in 1 .. Len(signs) : signs[i].zipState = "finished") =>
          \A j \in 1 .. Len(zip) : zip[j].data # <<>>

\* finish has invoked the signer on an archive whose AndroidManifest.xml
\* entry a failed add_res left empty, after an earlier operation had added
\* an entry, and Apk::sign has invoked it once more
C4_Witness ==
    /\ FinishSigns # {} /\ Len(signs) = 2
    /\ zipState = "finished" /\ Len(zip) = 2
    /\ zip[1].data # <<>>
    /\ zip[2].name = "AndroidManifest.xml" /\ zip[2].data = <<>>

\* C5: when Chunk::parse succeeds on a known-valid stream, the reader
\* position afterwards is the length of the stream.
C5_ExhaustiveConsumption ==
    (valid /\ IsSome(parsed) /\ Unwrap(parsed).ok) => Unwrap(parsed).pos = Len(stream)

C5_Witness ==
    /\ valid /\ IsSome(parsed) /\ Unwrap(parsed).ok
    /\ stream[1] = TagCode("table") /\ stream[HeaderUnits + 1] = MaxChildren

\* C6: a successful add_res with an icon writes, between resources.arsc and
\* AndroidManifest.xml, exactly one entry per variant of the mipmap
\* compiler's list, in the order of the list, at the variant's path and with
\* the bytes the rescaler produced for its size, and no other entry.
C6_VariantEntries ==
    (ReturnedOk /\ WithIcon) =>
        /\ Len(Mine) = Len(Variants) + 2
        /\ Mine[1].name = "resources.arsc"
        /\ Mine[Len(Mine)].name = "AndroidManifest.xml"
        /\ \A i \in 1 .. Len(Variants) :
              /\ Mine[i + 1].name = JoinSlash(Variants[i].path)
              /\ Mine[i + 1].data = ScalerBytes(Image, Variants[i].size)
              /\ Cardinality({ j \in 1 .. Len(Mine) :
                                 Mine[j].name = JoinSlash(Variants[i].path) }) = 1

C6_Witness == ReturnedOk /\ WithIcon /\ Len(Variants) = MaxVariants /\ MaxVariants > 1

\* C7: an error of any statement of add_res ends the call: it is the last
\* statement executed, the call has returned Err, and no statement's failure
\* is passed over.
C7_ErrorsTerminal ==
    /\ \A i \in 1 .. Len(trace) :
          ~trace[i].ok => (i = Len(trace) /\ pc = "done" /\ result = "Err")
    /\ result = "Err" => (pc = "done" /\ FailedAt # "none")
    /\ result = "Ok" => (pc = "done" /\ FailedAt = "none")

C7_Witness == ReturnedErr /\ FailedAt = "variant_write_all" /\ vi = MaxVariants

TableSteps == {"import", "merge", "compile"}

\* C8: the import is the first operation on the (empty) table, the merge
\* happens at most once and only after a successful import, and nothing is
\* imported or merged once the manifest compilation has started.
C8_TableProtocol ==
    /\ pc = "import" => table = EmptyTable
    /\ \A j \in 1 .. Len(trace) :
          /\ trace[j].step = "import" =>
                \A i \in 1 .. (j - 1) : trace[i].step \notin TableSteps
          /\ trace[j].step = "merge" =>
                /\ \E i \in 1 .. (j - 1) : trace[i].step = "import" /\ trace[i].ok
                /\ \A i \in 1 .. (j - 1) : trace[i].step # "merge"
                /\ table.state = "Merging"
          /\ trace[j].step = "compile" =>
                /\ \E i \in 1 .. (j - 1) : trace[i].step = "import" /\ trace[i].ok
                /\ \A k \in (j + 1) .. Len(trace) : trace[k].step \notin {"import", "merge"}
    /\ pc \in {"start_manifest", "clear_manifest", "manifest_write", "manifest_write_all"}
          => Did("compile")

C8_Witness == Returned /\ Did("merge") /\ Did("compile") /\ Len(Variants) = MaxVariants

\* C9: with an icon, the manifest that is compiled has its icon attribute set
\* to @mipmap/icon whatever the caller passed, the mipmap family `icon` is in
\* the table by then, so the reference resolves (to the merged chunk); without
\* an icon, the caller's icon attribute is left as it is and nothing is merged.
C9_IconReference ==
    /\ (WithIcon /\ pc = "compile") =>
          /\ Unwrap(manifest).icon = Some("@mipmap/icon")
          /\ Did("merge")
          /\ ~Unresolved(Unwrap(manifest), table)
    /\ (WithIcon /\ IsSome(compiled)) =>
          /\ Unwrap(compiled).icon = Some("@mipmap/icon")
          /\ Unwrap(compiled).id = Some(Len(table.packages))
          /\ table.packages[Len(table.packages)] = Unwrap(mipmap).chunk
    /\ WithoutIcon =>
          /\ manifest = Some(Unwrap(args).manifest)
          /\ ~Did("merge")
          /\ table.state \in {"Empty", "Imported"}
          /\ IsSome(compiled) => Unwrap(compiled).icon = Unwrap(args).manifest.icon

C9_Witness ==
    /\ WithIcon /\ IsSome(compiled)
    /\ Unwrap(args).manifest.icon = Some("@mipmap/other")

\* C10: the scratch buffer is empty whenever an artifact starts being
\* serialized into it, and what is written to the archive for an artifact is
\* that artifact's serialization and nothing else.
C10_BufferIsolation ==
    /\ pc \in {"chunk_write", "scale", "manifest_write"} => buf = <<>>
    /\ pc = "arsc_write_all" => buf = ChunkBytes(Unwrap(mipmap).chunk)
    /\ pc \in {"start_variant", "variant_write_all"} =>
          buf = ScalerBytes(Image, Variants[vi].size)
    /\ pc = "manifest_write_all" => buf = ManifestBytes(Unwrap(compiled))
    /\ ReturnedOk => Mine[Len(Mine)].data = ManifestBytes(Unwrap(compiled))

C10_Witness == pc = "manifest_write" /\ WithIcon /\ vi = MaxVariants /\ MaxVariants > 0

=============================================================================
